---- MODULE Spec2Model ----
(***************************************************************************)
(* A model of sync.py, the dotbot "sync" directive plugin: the record      *)
(* processor (Sync._process_records), the directory creator                *)
(* (Sync._create / Sync._chmodown), the sync operation (Sync._sync) and    *)
(* the cwRsync path rewriting (_fix_windows_path_for_cwrsync).             *)
(*                                                                         *)
(* Paths are sequences of one-character strings so that the rewriting and  *)
(* the expansions are computed character by character; Str turns one into  *)
(* the string that is put in the argument vector.  A Python dict is a      *)
(* function whose DOMAIN is the set of keys that are present.              *)
(***************************************************************************)
EXTENDS Integers, Sequences, FiniteSets, TLC

VARIABLES
    IS_WINDOWS,   \* the module-level platform flag (sync.py:8)
    defaults,     \* self._context.defaults().get('sync', {})
    records,      \* the mapping handed to handle(), in iteration order
    pc,           \* position of the control flow in handle/_process_records
    i,            \* index of the record the for loop is at
    success,      \* the accumulator of _process_records
    cur,          \* the locals of the loop body for the current record
    paths,        \* the matched source paths of the current record
    j,            \* index of the next matched source path
    handles,      \* every handle on os.devnull ever opened: "open"/"closed"
    calls,        \* history: every _sync call, with what it returned
    creates,      \* history: every _create call, with what it did
    log,          \* the messages given to self._log, in order
    exc,          \* the exception that escaped, or NoExc
    result,       \* the value handle() returned, or NoResult
    sArgs,        \* SpecSync: the arguments of one direct _sync call
    sOut,         \* SpecSync: its outcome
    fixPath,      \* SpecFix: the argument of the path rewriting
    fixResult,    \* SpecFix: its result
    fixDone       \* SpecFix: whether the rewriting has been applied

vars == <<IS_WINDOWS, defaults, records, pc, i, success, cur, paths, j,
          handles, calls, creates, log, exc, result, sArgs, sOut,
          fixPath, fixResult, fixDone>>

(***************************************************************************)
(* Bounds of the model.                                                    *)
(***************************************************************************)
MaxRecords == 2   \* records in one mapping
MaxPaths == 2     \* source paths a glob expression matches
MaxLen == 4       \* characters of a path given to the rewriting (SpecFix)

(***************************************************************************)
(* Characters and strings.                                                 *)
(***************************************************************************)
RECURSIVE Str(_)
Str(cs) == IF cs = <<>> THEN "" ELSE Head(cs) \o Str(Tail(cs))

UpperLetters == {"C"}
LowerLetters == {"c", "x"}
Letters == UpperLetters \cup LowerLetters
Lower(c) == IF c = "C" THEN "c" ELSE c

\* str.replace('\\', '/')
ReplaceBackslashes(path) ==
    [k \in 1..Len(path) |-> IF path[k] = "\\" THEN "/" ELSE path[k]]

\* str.endswith('/')
EndsWithSlash(path) == Len(path) > 0 /\ path[Len(path)] = "/"

NoNewline(cs) == \A k \in 1..Len(cs) : cs[k] # "\n"

\* re.match(r'^([A-Za-z]):/(.*)$', path): '.' matches no newline, and '$'
\* matches at the end or just before a newline that ends the string.
ReMatches(path) ==
    /\ Len(path) >= 3
    /\ path[1] \in Letters
    /\ path[2] = ":"
    /\ path[3] = "/"
    /\ LET r == SubSeq(path, 4, Len(path))
       IN  \/ NoNewline(r)
           \/ /\ Len(r) >= 1
              /\ r[Len(r)] = "\n"
              /\ NoNewline(SubSeq(r, 1, Len(r) - 1))

\* match.group(2), for a path that matches
ReGroup2(path) ==
    LET r == SubSeq(path, 4, Len(path))
    IN  IF NoNewline(r) THEN r ELSE SubSeq(r, 1, Len(r) - 1)

Cygdrive == <<"/", "c", "y", "g", "d", "r", "i", "v", "e", "/">>

_fix_windows_path_for_cwrsync(path) ==
    IF ~IS_WINDOWS
    THEN path
    ELSE LET p == ReplaceBackslashes(path)
         IN  IF ReMatches(p)
             THEN Cygdrive \o <<Lower(p[1]), "/">> \o ReGroup2(p)
             ELSE p

(***************************************************************************)
(* The operating system: the home directory, the environment, the user     *)
(* and group databases, the file system that glob and isdir read.          *)
(***************************************************************************)
NoneVal == "<None>"              \* Python's None where a name is expected
Truthy(s) == s \notin {"", NoneVal}

Home == IF IS_WINDOWS THEN <<"C", ":", "\\", "h">> ELSE <<"/", "h">>
BaseDir == IF IS_WINDOWS THEN <<"C", ":", "\\", "b">> ELSE <<"/", "b">>
Seps == IF IS_WINDOWS THEN {"\\", "/"} ELSE {"/"}
Sep == IF IS_WINDOWS THEN "\\" ELSE "/"

CurrentUser == "me"
CurrentGroup == "users"
Passwd == [me |-> 1000, alice |-> 1001]
Groups == [users |-> 100, staff |-> 50]

\* os.path.expanduser: a leading "~" alone or before a separator becomes the
\* home directory; "~name" of an unknown user is left as it is.
expanduser(path) ==
    IF /\ Len(path) >= 1
       /\ path[1] = "~"
       /\ (Len(path) = 1 \/ path[2] \in Seps)
    THEN Home \o Tail(path)
    ELSE path

WordChars == Letters \cup {"a", "b", "d", "e", "h", "n", "H", "1", "2", "3", "4"}
Environ == [H |-> Home]

RECURSIVE NameLen(_, _)
\* the length of the run of word characters that starts at path[k]
NameLen(path, k) ==
    IF k <= Len(path) /\ path[k] \in WordChars
    THEN 1 + NameLen(path, k + 1)
    ELSE 0

RECURSIVE expandvars(_)
\* os.path.expandvars: $NAME becomes the variable's value when it is set
expandvars(path) ==
    IF path = <<>>
    THEN <<>>
    ELSE IF Head(path) = "$" /\ NameLen(path, 2) > 0
         THEN LET n == NameLen(path, 2)
                  name == Str(SubSeq(path, 2, n + 1))
                  rest == SubSeq(path, n + 2, Len(path))
              IN  IF name \in DOMAIN Environ
                  THEN Environ[name] \o expandvars(rest)
                  ELSE SubSeq(path, 1, n + 1) \o expandvars(rest)
         ELSE <<Head(path)>> \o expandvars(Tail(path))

\* The files that exist: MaxPaths sources a1, a2, ... in the working
\* directory (the even ones directories), and for every record index r two
\* directories /d<r>a and /d<r>b, which the pattern /d<r>* matches.
Digit(k) == ToString(k)
SourceFiles == {<<"a", Digit(k)>> : k \in 1..MaxPaths}
Dirs ==
    {<<"a", Digit(k)>> : k \in {m \in 1..MaxPaths : m % 2 = 0}}
    \cup {<<"/", "d", Digit(r), c>> : r \in 1..(MaxRecords + 1), c \in {"a", "b"}}
FS == SourceFiles \cup Dirs

HasMagic(pattern) == \E k \in 1..Len(pattern) : pattern[k] = "*"

RECURSIVE Match(_, _)
\* fnmatch of one pattern against one name; "*" matches no separator
Match(pat, name) ==
    IF pat = <<>>
    THEN name = <<>>
    ELSE IF Head(pat) = "*"
         THEN \/ Match(Tail(pat), name)
              \/ /\ name # <<>>
                 /\ Head(name) # "/"
                 /\ Match(pat, Tail(name))
         ELSE /\ name # <<>>
              /\ Head(name) = Head(pat)
              /\ Match(Tail(pat), Tail(name))

RECURSIVE Listed(_, _)
\* the names of S that end in Digit(k), Digit(k+1), ..., then the others
Listed(S, k) ==
    IF S = {}
    THEN <<>>
    ELSE LET here == {f \in S : f[Len(f)] = Digit(k)}
         IN  IF here = {} /\ k <= 9
             THEN Listed(S, k + 1)
             ELSE LET f == CHOOSE f \in (IF here = {} THEN S ELSE here) : TRUE
                  IN  <<f>> \o Listed(S \ {f}, k)

\* glob.glob: the existing paths a pattern matches; a pattern without a
\* wildcard yields itself when it exists and nothing otherwise.
glob(pattern) ==
    IF HasMagic(pattern)
    THEN Listed({f \in FS : Match(pattern, f)}, 1)
    ELSE IF pattern \in FS THEN <<pattern>> ELSE <<>>

ExpandAlwaysGlobs(path, globs) == glob(expandvars(expanduser(path)))

\* Sync.expand_path
expand_path(path, globs) ==
    LET p == expandvars(expanduser(path))
    IN  IF globs THEN glob(p) ELSE <<p>>

\* os.path.isdir
isdir(path) ==
    \E d \in Dirs : path = d \/ path = BaseDir \o <<Sep>> \o d

Drive(path) ==
    IF Len(path) >= 2 /\ path[2] = ":" THEN SubSeq(path, 1, 2) ELSE <<>>

LowerAll(path) == [k \in 1..Len(path) |-> Lower(path[k])]

\* os.path.join(base, path): posixpath.join, or ntpath.join on Windows
join(base, path) ==
    IF ~IS_WINDOWS
    THEN IF Len(path) >= 1 /\ path[1] = "/"
         THEN path
         ELSE IF base = <<>> \/ EndsWithSlash(base)
              THEN base \o path
              ELSE base \o <<"/">> \o path
    ELSE LET pdrive == Drive(path)
             ppath == SubSeq(path, Len(pdrive) + 1, Len(path))
             bdrive == Drive(base)
         IN  IF Len(ppath) >= 1 /\ ppath[1] \in Seps
             THEN (IF pdrive # <<>> THEN pdrive ELSE bdrive) \o ppath
             ELSE IF pdrive # <<>> /\ LowerAll(pdrive) # LowerAll(bdrive)
                  THEN path
                  ELSE IF base = <<>> \/ base[Len(base)] \in (Seps \cup {":"})
                       THEN base \o ppath
                       ELSE base \o <<"\\">> \o ppath

\* dict.get(key, default)
Get(d, key, default) == IF key \in DOMAIN d THEN d[key] ELSE default

\* int('%s' % n, 8) for n >= 0: the decimal digits read as octal digits
RECURSIVE OctalValue(_)
OctalValue(n) == IF n < 10 THEN n ELSE 8 * OctalValue(n \div 10) + (n % 10)

RECURSIVE OctalDigits(_)
\* whether int('%s' % n, 8) succeeds (it raises ValueError on a digit 8 or 9)
OctalDigits(n) == IF n < 10 THEN n < 8 ELSE (n % 10) < 8 /\ OctalDigits(n \div 10)

(***************************************************************************)
(* The logger: a message is its level and what it reports.                 *)
(***************************************************************************)
Msg(level, what) == [level |-> level, what |-> what]

(***************************************************************************)
(* Sync._chmodown.  os holds what the system calls do: os.chmodOk and      *)
(* os.chownOk tell whether os.chmod and os.chown succeed.                  *)
(***************************************************************************)
ChmodownStopsAfterChmod(path, chmod, uid, gid, os) ==
    LET chownTried == ~IS_WINDOWS /\ os.chmodOk
    IN  [chmodTried |-> TRUE,
         chownTried |-> chownTried,
         log |-> (IF os.chmodOk THEN <<>> ELSE <<Msg("warning", "chmod failed")>>)
                 \o (IF chownTried /\ ~os.chownOk
                     THEN <<Msg("warning", "chown failed")>>
                     ELSE <<>>)]

_chmodown(path, chmod, uid, gid, os) ==
    LET chownTried == ~IS_WINDOWS
    IN  [chmodTried |-> TRUE,
         chownTried |-> chownTried,
         log |-> (IF os.chmodOk THEN <<>> ELSE <<Msg("warning", "chmod failed")>>)
                 \o (IF chownTried /\ ~os.chownOk
                     THEN <<Msg("warning", "chown failed")>>
                     ELSE <<>>)]

(***************************************************************************)
(* Sync._create.  os.exists is os.path.exists(parent) and os.mkdirOk tells *)
(* whether os.mkdir succeeds.                                              *)
(***************************************************************************)
NoChmodown == [chmodTried |-> FALSE, chownTried |-> FALSE, log |-> <<>>]

_create(path, dmode, uid, gid, os) ==
    IF os.exists
    THEN [ret |-> TRUE, mkdirTried |-> FALSE, own |-> NoChmodown, log |-> <<>>]
    ELSE IF ~os.mkdirOk
         THEN [ret |-> FALSE, mkdirTried |-> TRUE, own |-> NoChmodown,
               log |-> <<Msg("warning", "create failed")>>]
         ELSE LET own == _chmodown(path, dmode, uid, gid, os)
              IN  [ret |-> TRUE, mkdirTried |-> TRUE, own |-> own,
                   log |-> own.log \o <<Msg("lowinfo", "creating directory")>>]

(***************************************************************************)
(* Sync._sync.  options is [type, items]: type "list" with the flags, or   *)
(* another type (a bare string in the configuration), for which the list   *)
(* concatenation of line 205 raises TypeError.  proc is what               *)
(* subprocess.run does: "exit0", "exit1" (a non-zero status) or "oserror"  *)
(* (it raises, as when the tool is not installed).                         *)
(***************************************************************************)
NoExc == "none"
NonEmpty(c) == c # ""

\* lines 186-196: the fixed part of the argument vector
FixedFlags == <<"--update", "--recursive", "--owner", "--group">>

ChownFlag(owner, group) ==
    IF Truthy(owner) /\ Truthy(group)
    THEN "--chown=" \o owner \o ":" \o group
    ELSE ""

ChmodFlag(dmode, fmode) ==
    "--chmod=D" \o ToString(dmode) \o ",F" \o ToString(fmode)

BuildCmdChownOnOwner(rsync, dmode, fmode, owner, group) ==
    SelectSeq(<<rsync>> \o FixedFlags
              \o <<IF Truthy(owner) THEN "--chown=" \o owner \o ":" \o group ELSE "">>
              \o <<ChmodFlag(dmode, fmode)>>,
              NonEmpty)

BuildCmd(rsync, dmode, fmode, owner, group) ==
    SelectSeq(<<rsync>> \o FixedFlags
              \o <<ChownFlag(owner, group), ChmodFlag(dmode, fmode)>>,
              NonEmpty)

\* lines 176-183 and 198-203: the source as handed to the tool
SourceArg(source) ==
    LET full == join(BaseDir, source)
        abs == IF IS_WINDOWS THEN _fix_windows_path_for_cwrsync(full) ELSE full
    IN  IF isdir(full) /\ ~EndsWithSlash(abs) THEN abs \o <<"/">> ELSE abs

\* lines 178 and 183: the destination as handed to the tool
DestArg(destination) ==
    LET abs == expanduser(destination)
    IN  IF IS_WINDOWS THEN _fix_windows_path_for_cwrsync(abs) ELSE abs

_sync(source, destination, dmode, fmode, owner, group, rsync, options, stdout, stderr, proc) ==
    LET cmd == BuildCmd(rsync, dmode, fmode, owner, group)
        src == Str(SourceArg(source))
        dst == Str(DestArg(destination))
    IN  IF options.type # "list"
        THEN [exc |-> "TypeError: options", ret |-> FALSE, ran |-> FALSE, cmd |-> <<>>,
              stdout |-> 0, stderr |-> 0, cwd |-> <<>>, log |-> <<>>]
        ELSE [exc |-> NoExc,
              ret |-> (proc = "exit0"),
              ran |-> (proc # "oserror"),
              cmd |-> cmd \o options.items \o <<src, dst>>,
              stdout |-> stdout,
              stderr |-> stderr,
              cwd |-> BaseDir,
              log |-> IF proc = "exit0"
                      THEN <<Msg("lowinfo", "synchronized")>>
                      ELSE <<Msg("warning", "failed to sync")>>]

(***************************************************************************)
(* The inputs: the defaults of the 'sync' directive and the records.  A    *)
(* source is a bare path expression (kind "str") or an extended            *)
(* specification (kind "dict", d the dict).                                *)
(***************************************************************************)
Bare(expr) == [kind |-> "str", expr |-> expr, d |-> <<>>]
Extended(d) == [kind |-> "dict", expr |-> <<>>, d |-> d]

OptList(items) == [type |-> "list", items |-> items]
OptStr(text) == [type |-> "str", items |-> <<text>>]

\* the destinations of record r: a pattern two directories match, a path
\* under the home directory that does not exist, a directory that exists
DestPattern(r) == <<"/", "d", Digit(r), "*">>
DestMissing(r) == <<"~", "/", "n", Digit(r)>>
DestPlain(r) == <<"/", "d", Digit(r), "a">>

AllSources == <<"a", "*">>
OneSource == <<"a", "1">>
NoSource == <<"n", "*">>

RecordChoices(r) ==
    { [dest |-> DestPlain(r), source |-> Bare(AllSources)],
      [dest |-> DestPlain(r), source |-> Bare(NoSource)],
      [dest |-> DestPattern(r),
       source |-> Extended([path |-> OneSource, create |-> TRUE,
                            stderr |-> FALSE, group |-> "staff"])],
      [dest |-> DestMissing(r),
       source |-> Extended([path |-> OneSource, stdout |-> FALSE,
                            owner |-> "ghost"])],
      [dest |-> DestPlain(r),
       source |-> Extended([path |-> OneSource, stdout |-> TRUE,
                            options |-> OptStr("--delete")])],
      [dest |-> DestPlain(r),
       source |-> Extended([create |-> TRUE, dmode |-> 789])],
      [dest |-> DestPlain(r),
       source |-> Extended([path |-> NoSource, create |-> TRUE,
                            dmode |-> 789])] }

RecordMappings ==
    UNION { { m \in [1..n -> UNION {RecordChoices(r) : r \in 1..n}] :
                \A r \in 1..n : m[r] \in RecordChoices(r) } : n \in 0..MaxRecords }

DefaultsChoices ==
    { <<>>,
      [stdout |-> FALSE, stderr |-> FALSE, owner |-> "alice",
       options |-> OptList(<<"--delete">>)] }

(***************************************************************************)
(* Option resolution, lines 78-116.                                        *)
(***************************************************************************)
default_owner == CurrentUser
default_group == IF IS_WINDOWS THEN NoneVal ELSE CurrentGroup

BuiltinOptions == OptList(<<"--delete", "--safe-links">>)

\* lines 79-94: the values taken from the defaults
FromDefaults(dflt) ==
    [rsync |-> Get(dflt, "rsync", "rsync"),
     options |-> Get(dflt, "options", BuiltinOptions),
     create |-> Get(dflt, "create", FALSE),
     fmode |-> Get(dflt, "fmode", 644),
     dmode |-> Get(dflt, "dmode", 755),
     owner |-> Get(dflt, "owner", default_owner),
     group |-> Get(dflt, "group", default_group)]

\* lines 101-108: the values of an extended specification over them
Layered(dflt, source) ==
    LET base == FromDefaults(dflt)
    IN  IF source.kind = "dict"
        THEN [rsync |-> Get(source.d, "rsync", base.rsync),
              options |-> Get(source.d, "options", base.options),
              create |-> Get(source.d, "create", base.create),
              fmode |-> Get(source.d, "fmode", base.fmode),
              dmode |-> Get(source.d, "dmode", base.dmode),
              owner |-> Get(source.d, "owner", base.owner),
              group |-> Get(source.d, "group", base.group)]
        ELSE base

\* lines 97-98 and 111-114: whether the stream named key ("stdout" or
\* "stderr") is redirected to os.devnull
Redirects(dflt, source, key) ==
    /\ source.kind = "dict"
    /\ Get(source.d, key, Get(dflt, key, TRUE)) = FALSE

(***************************************************************************)
(* Sync.handle and Sync._process_records as a state machine.               *)
(***************************************************************************)
NoResult == "none"
NoLocals == <<>>

mainVars == <<defaults, records, pc, i, success, cur, paths, j, handles,
              calls, creates, log, exc, result>>
syncVars == <<sArgs, sOut>>
fixVars == <<fixPath, fixResult, fixDone>>

OpenCount == Cardinality({h \in 1..Len(handles) : handles[h] = "open"})

\* an exception leaves handle(): nothing below line 47 runs any more
Raise(name) ==
    /\ pc' = "raised"
    /\ exc' = name

AccumulateLast(acc, ret) == ret

\* success &= ret
Accumulate(acc, ret) == acc /\ ret

AggregateAlwaysInfo(ok) == Msg("info", "all done")

\* lines 148-151
AggregateMsg(ok) ==
    IF ok THEN Msg("info", "all done") ELSE Msg("error", "some failed")

\* lines 44-47 and 71-72: handle(directive, data)
Handle ==
    /\ pc = "idle"
    /\ \E directive \in {"sync", "link"} :
          IF directive # "sync"
          THEN /\ Raise("ValueError: directive")
               /\ UNCHANGED <<i, success>>
          ELSE /\ success' = TRUE
               /\ i' = 1
               /\ pc' = "record"
               /\ exc' = exc
    /\ UNCHANGED <<IS_WINDOWS, defaults, records, cur, paths, j, handles,
                   calls, creates, log, result, syncVars, fixVars>>

\* lines 74-116: the next record; its destination, its options, its streams
BeginRecord ==
    /\ pc = "record"
    /\ i <= Len(records)
    /\ LET source == records[i].source
           dests == expand_path(records[i].dest, FALSE)
           eff == Layered(defaults, source)
           nullOut == Redirects(defaults, source, "stdout")
           nullErr == Redirects(defaults, source, "stderr")
           opened == (IF nullOut THEN <<"open">> ELSE <<>>)
                     \o (IF nullErr THEN <<"open">> ELSE <<>>)
       IN  IF Len(dests) # 1
           THEN /\ Raise("ValueError: unpack")
                /\ UNCHANGED <<cur, handles>>
           ELSE IF source.kind = "dict" /\ "path" \notin DOMAIN source.d
                THEN /\ Raise("KeyError: path")
                     /\ UNCHANGED <<cur, handles>>
                ELSE /\ cur' = [destination |-> dests[1],
                                rsync |-> eff.rsync,
                                options |-> eff.options,
                                create |-> eff.create,
                                fmode |-> eff.fmode,
                                dmode |-> eff.dmode,
                                owner |-> eff.owner,
                                group |-> eff.group,
                                stdout |-> IF nullOut THEN Len(handles) + 1 ELSE 0,
                                stderr |-> IF nullErr THEN Len(handles) + Len(opened)
                                           ELSE 0,
                                paths_expression |->
                                    IF source.kind = "dict"
                                    THEN source.d.path
                                    ELSE source.expr,
                                uid |-> -1,
                                gid |-> -1]
                     /\ handles' = handles \o opened
                     /\ pc' = "ids"
                     /\ exc' = exc
    /\ UNCHANGED <<IS_WINDOWS, defaults, records, i, success, paths, j, calls,
                   creates, log, result, syncVars, fixVars>>

\* lines 118-124: owner and group names to uid and gid
ResolveIds ==
    /\ pc = "ids"
    /\ IF IS_WINDOWS
       THEN /\ pc' = "create"
            /\ UNCHANGED <<cur, exc>>
       ELSE IF \/ (Truthy(cur.owner) /\ cur.owner \notin DOMAIN Passwd)
               \/ (Truthy(cur.group) /\ cur.group \notin DOMAIN Groups)
            THEN /\ Raise("KeyError: name")
                 /\ UNCHANGED cur
            ELSE /\ cur' = [cur EXCEPT
                              !.uid = IF Truthy(cur.owner)
                                      THEN Passwd[cur.owner] ELSE -1,
                              !.gid = IF Truthy(cur.group)
                                      THEN Groups[cur.group] ELSE -1]
                 /\ pc' = "create"
                 /\ exc' = exc
    /\ UNCHANGED <<IS_WINDOWS, defaults, records, i, success, paths, j, handles,
                   calls, creates, log, result, syncVars, fixVars>>

\* what the system calls under _create can do
CreateOutcomes ==
    { [exists |-> TRUE, mkdirOk |-> TRUE, chmodOk |-> TRUE, chownOk |-> TRUE],
      [exists |-> FALSE, mkdirOk |-> FALSE, chmodOk |-> TRUE, chownOk |-> TRUE] }
    \cup [exists : {FALSE}, mkdirOk : {TRUE}, chmodOk : BOOLEAN, chownOk : BOOLEAN]

\* lines 126-128: create the parent directory when asked to
Create ==
    /\ pc = "create"
    /\ IF ~cur.create
       THEN /\ pc' = "expand"
            /\ UNCHANGED <<success, creates, log, exc>>
       ELSE IF ~OctalDigits(cur.dmode)
            THEN /\ Raise("ValueError: dmode")
                 /\ UNCHANGED <<success, creates, log>>
            ELSE \E os \in CreateOutcomes :
                    LET r == _create(cur.destination, OctalValue(cur.dmode),
                                     cur.uid, cur.gid, os)
                    IN  /\ success' = Accumulate(success, r.ret)
                        /\ creates' = Append(creates,
                                             [rec |-> i, os |-> os, ret |-> r.ret,
                                              mkdirTried |-> r.mkdirTried,
                                              chmodTried |-> r.own.chmodTried,
                                              chownTried |-> r.own.chownTried,
                                              log |-> r.log])
                        /\ log' = log \o r.log
                        /\ pc' = "expand"
                        /\ exc' = exc
    /\ UNCHANGED <<IS_WINDOWS, defaults, records, i, cur, paths, j, handles,
                   calls, result, syncVars, fixVars>>

\* lines 130-134: the matched source paths
Expand ==
    /\ pc = "expand"
    /\ paths' = expand_path(cur.paths_expression, TRUE)
    /\ j' = 1
    /\ log' = IF Len(paths') > 1
              THEN Append(log, Msg("lowinfo", "synchronizing expression"))
              ELSE log
    /\ pc' = "sync"
    /\ UNCHANGED <<IS_WINDOWS, defaults, records, i, success, cur, handles,
                   calls, creates, exc, result, syncVars, fixVars>>

ProcOutcomes == {"exit0", "exit1", "oserror"}

\* lines 136-140: one iteration of the loop over the matched paths
SyncOne ==
    /\ pc = "sync"
    /\ j <= Len(paths)
    /\ \E proc \in ProcOutcomes :
          LET r == _sync(paths[j], cur.destination, cur.dmode, cur.fmode,
                         cur.owner, cur.group, cur.rsync, cur.options,
                         cur.stdout, cur.stderr, proc)
          IN  IF r.exc # NoExc
              THEN /\ Raise(r.exc)
                   /\ UNCHANGED <<success, calls, log, j>>
              ELSE /\ success' = Accumulate(success, r.ret)
                   /\ calls' = Append(calls,
                                      [rec |-> i, path |-> paths[j], ret |-> r.ret,
                                       stdout |-> r.stdout,
                                       stderr |-> r.stderr])
                   /\ log' = log \o r.log
                   /\ j' = j + 1
                   /\ UNCHANGED <<pc, exc>>
    /\ UNCHANGED <<IS_WINDOWS, defaults, records, i, cur, paths, handles,
                   creates, result, syncVars, fixVars>>

\* isinstance(x, type(open(os.devnull))): the handle opened for the test is
\* never closed by the code; it is left to the garbage collector ("dropped")
CloseOne(hs, h) ==
    LET probed == Append(hs, "dropped")
    IN  IF h # 0 THEN [probed EXCEPT ![h] = "closed"] ELSE probed

\* lines 142-146
CloseHandles(hs, out, err) == CloseOne(CloseOne(hs, out), err)

\* lines 142-146, and back to line 74
Close ==
    /\ pc = "sync"
    /\ j > Len(paths)
    /\ handles' = CloseHandles(handles, cur.stdout, cur.stderr)
    /\ i' = i + 1
    /\ pc' = "record"
    /\ UNCHANGED <<IS_WINDOWS, defaults, records, success, cur, paths, j, calls,
                   creates, log, exc, result, syncVars, fixVars>>

\* lines 148-152
Finish ==
    /\ pc = "record"
    /\ i > Len(records)
    /\ log' = Append(log, AggregateMsg(success))
    /\ result' = success
    /\ pc' = "done"
    /\ UNCHANGED <<IS_WINDOWS, defaults, records, i, success, cur, paths, j,
                   handles, calls, creates, exc, syncVars, fixVars>>

SyncIdle == sArgs = <<>> /\ sOut = <<>>
FixIdle == fixPath = <<>> /\ fixResult = <<>> /\ fixDone = FALSE
MainIdle ==
    /\ defaults = <<>>
    /\ records = <<>>
    /\ pc = "off"
    /\ i = 0
    /\ success = TRUE
    /\ cur = NoLocals
    /\ paths = <<>>
    /\ j = 0
    /\ handles = <<>>
    /\ calls = <<>>
    /\ creates = <<>>
    /\ log = <<>>
    /\ exc = NoExc
    /\ result = NoResult

Init ==
    /\ IS_WINDOWS \in BOOLEAN
    /\ defaults \in DefaultsChoices
    /\ records \in RecordMappings
    /\ pc = "idle"
    /\ i = 0
    /\ success = TRUE
    /\ cur = NoLocals
    /\ paths = <<>>
    /\ j = 0
    /\ handles = <<>>
    /\ calls = <<>>
    /\ creates = <<>>
    /\ log = <<>>
    /\ exc = NoExc
    /\ result = NoResult
    /\ SyncIdle
    /\ FixIdle

Next ==
    \/ Handle
    \/ BeginRecord
    \/ ResolveIds
    \/ Create
    \/ Expand
    \/ SyncOne
    \/ Close
    \/ Finish

Spec == Init /\ [][Next]_vars

(***************************************************************************)
(* SpecSync: Sync._sync called once, directly, on arguments drawn from     *)
(* bounded sets.                                                           *)
(***************************************************************************)
NoOut == [done |-> FALSE]

SyncSources == {<<"a", "1">>, <<"a", "2">>, <<"C", ":", "\\", "x">>}
SyncDests == {<<"~", "/", "x">>, <<"/", "d">>, <<"c", ":", "/", "x">>}
SyncOwners == {"", NoneVal, "alice"}
SyncGroups == {"", NoneVal, "staff"}
SyncOptions == {OptList(<<>>), BuiltinOptions, OptStr("--delete")}

SyncArgs ==
    [source : SyncSources, destination : SyncDests, dmode : {755},
     fmode : {644, 600}, owner : SyncOwners, group : SyncGroups,
     rsync : {"rsync", ""}, options : SyncOptions,
     stdout : {0, 1}, stderr : {0}]

InitSync ==
    /\ IS_WINDOWS \in BOOLEAN
    /\ sArgs \in SyncArgs
    /\ sOut = NoOut
    /\ MainIdle
    /\ FixIdle

\* one call of _sync, with what the subprocess does
SyncCall ==
    /\ ~sOut.done
    /\ \E proc \in ProcOutcomes :
          sOut' = _sync(sArgs.source, sArgs.destination, sArgs.dmode,
                        sArgs.fmode, sArgs.owner, sArgs.group, sArgs.rsync,
                        sArgs.options, sArgs.stdout, sArgs.stderr, proc)
                  @@ [done |-> TRUE, proc |-> proc]
    /\ UNCHANGED <<IS_WINDOWS, sArgs, mainVars, fixVars>>

NextSync == SyncCall

SpecSync == InitSync /\ [][NextSync]_vars

(***************************************************************************)
(* SpecFix: _fix_windows_path_for_cwrsync applied to every path of at most *)
(* MaxLen characters over FixAlphabet.                                     *)
(***************************************************************************)
FixAlphabet == {"C", "c", "x", ":", "\\", "/", "\n"}

FixPaths == UNION {[1..n -> FixAlphabet] : n \in 0..MaxLen}

InitFix ==
    /\ IS_WINDOWS \in BOOLEAN
    /\ fixPath \in FixPaths
    /\ fixResult = <<>>
    /\ fixDone = FALSE
    /\ MainIdle
    /\ SyncIdle

\* one call of the rewriting
Fix ==
    /\ ~fixDone
    /\ fixResult' = _fix_windows_path_for_cwrsync(fixPath)
    /\ fixDone' = TRUE
    /\ UNCHANGED <<IS_WINDOWS, fixPath, mainVars, syncVars>>

NextFix == Fix

SpecFix == InitFix /\ [][NextFix]_vars

(***************************************************************************)
(* The properties.                                                         *)
(***************************************************************************)
Running == pc \in {"ids", "create", "expand", "sync"}
Ended == pc \in {"done", "raised"}

AllCallsTrue == \A k \in 1..Len(calls) : calls[k].ret
AllCreatesTrue == \A k \in 1..Len(creates) : creates[k].ret

\* C1: when _process_records returns (no exception escaped), the value it
\* returns is true exactly when every _create call and every _sync call
\* of the run returned true; a run that made no call returns true.
C1_ResultIsConjunction ==
    pc = "done" => (result <=> (AllCallsTrue /\ AllCreatesTrue))

\* C1 witness: a finished run in which a failed _sync call was followed by
\* a successful one, and which returned false.
C1_FailureThenSuccess ==
    /\ pc = "done"
    /\ Len(calls) >= 2
    /\ ~calls[1].ret
    /\ calls[Len(calls)].ret
    /\ ~result

\* the source paths the run has to hand to _sync, record by record
RECURSIVE ExpectedFrom(_)
ExpectedFrom(r) ==
    IF r > Len(records)
    THEN <<>>
    ELSE LET src == records[r].source
             expr == IF src.kind = "dict" THEN Get(src.d, "path", <<>>) ELSE src.expr
             found == expand_path(expr, TRUE)
         IN  [k \in 1..Len(found) |-> <<r, found[k]>>] \o ExpectedFrom(r + 1)

Invoked == [k \in 1..Len(calls) |-> <<calls[k].rec, calls[k].path>>]

SomeFailure == ~AllCallsTrue \/ ~AllCreatesTrue

\* a mapping as the configuration format describes it: every extended
\* specification has its path, its options are a list, its modes are octal
WellFormed ==
    \A r \in 1..Len(records) :
        LET src == records[r].source
        IN  src.kind = "dict" =>
               /\ "path" \in DOMAIN src.d
               /\ Get(src.d, "options", BuiltinOptions).type = "list"
               /\ OctalDigits(Get(src.d, "dmode", 755))

\* C2: a run (here: on a well-formed mapping) in which a _sync call or a
\* _create call returned false still calls _sync exactly once, in order,
\* for every matched source path of every record, and then returns false.
C2_FailuresDoNotAbort ==
    (Ended /\ SomeFailure /\ WellFormed) =>
        /\ Invoked = ExpectedFrom(1)
        /\ pc = "done"
        /\ result = FALSE

\* C2, supporting: in the runs that return, every matched source path of
\* every record was handed to _sync exactly once, in order, whatever
\* failed, and a run with a failure returned false.
C2_HoldsWhenNothingRaises ==
    pc = "done" =>
        /\ Invoked = ExpectedFrom(1)
        /\ SomeFailure => result = FALSE

\* the keys a record sets itself: those of its dict, none for a bare string
Own(source) == IF source.kind = "dict" THEN source.d ELSE <<>>

\* the value the claim gives field key of record r: the record's own, else
\* the defaults', else the built-in one
Claimed(r, key, builtin) ==
    Get(Own(records[r].source), key, Get(defaults, key, builtin))

\* C3: for each of the nine fields the value in effect for a record is its
\* own when it sets the field, else the defaults' when they set it, else
\* the built-in default; a stream whose value in effect is false is
\* redirected to os.devnull, for a bare-string record too.
C3_FieldsLayered ==
    Running =>
        /\ cur.create = Claimed(i, "create", FALSE)
        /\ cur.rsync = Claimed(i, "rsync", "rsync")
        /\ cur.options = Claimed(i, "options", BuiltinOptions)
        /\ cur.fmode = Claimed(i, "fmode", 644)
        /\ cur.dmode = Claimed(i, "dmode", 755)
        /\ cur.owner = Claimed(i, "owner", default_owner)
        /\ cur.group = Claimed(i, "group", default_group)
        /\ (cur.stdout # 0) <=> (Claimed(i, "stdout", TRUE) = FALSE)
        /\ (cur.stderr # 0) <=> (Claimed(i, "stderr", TRUE) = FALSE)

\* C3, supporting: the seven fields other than the streams are layered as
\* claimed for every record, and the streams are for every extended one.
C3_HoldsButForBareStreams ==
    Running =>
        /\ cur.create = Claimed(i, "create", FALSE)
        /\ cur.rsync = Claimed(i, "rsync", "rsync")
        /\ cur.options = Claimed(i, "options", BuiltinOptions)
        /\ cur.fmode = Claimed(i, "fmode", 644)
        /\ cur.dmode = Claimed(i, "dmode", 755)
        /\ cur.owner = Claimed(i, "owner", default_owner)
        /\ cur.group = Claimed(i, "group", default_group)
        /\ records[i].source.kind = "dict" =>
              /\ (cur.stdout # 0) <=> (Claimed(i, "stdout", TRUE) = FALSE)
              /\ (cur.stderr # 0) <=> (Claimed(i, "stderr", TRUE) = FALSE)

\* the number of existing paths the destination of record r matches
DestMatches(r) == Len(glob(expandvars(expanduser(records[r].dest))))

C5_SyncNeverRaises ==
    sOut.done =>
        /\ sOut.exc = NoExc
        /\ sOut.ret <=> (sOut.ran /\ sOut.proc = "exit0")
        /\ ~sOut.ret => \E k \in 1..Len(sOut.log) : sOut.log[k].level = "warning"

\* C5, supporting: with the options a list, _sync does as claimed.
C5_HoldsForListOptions ==
    (sOut.done /\ sArgs.options.type = "list") => C5_SyncNeverRaises

\* the position of the first fixed flag: the tool's name, when it is not
\* empty, comes before it
FlagsAt == IF sArgs.rsync = "" THEN 1 ELSE 2

BothNames == Truthy(sArgs.owner) /\ Truthy(sArgs.group)

\* C6: in the argument vector, the four fixed flags come first (after the
\* tool), then --chown=<owner>:<group> exactly when owner and group are
\* both non-empty, then --chmod=D<dmode>,F<fmode>, then the extra options
\* in their order, then the source, then the destination.
C6_ArgumentVector ==
    (sOut.done /\ sOut.exc = NoExc) =>
        LET cmd == sOut.cmd
            opts == sArgs.options.items
            chmodAt == FlagsAt + 4 + (IF BothNames THEN 1 ELSE 0)
            chown == "--chown=" \o sArgs.owner \o ":" \o sArgs.group
        IN  /\ Len(cmd) = chmodAt + Len(opts) + 2
            /\ SubSeq(cmd, FlagsAt, FlagsAt + 3)
                 = <<"--update", "--recursive", "--owner", "--group">>
            /\ BothNames => cmd[FlagsAt + 4] = chown
            /\ (\E k \in 1..Len(cmd) : cmd[k] = chown) <=> BothNames
            /\ cmd[chmodAt] = "--chmod=D" \o ToString(sArgs.dmode)
                              \o ",F" \o ToString(sArgs.fmode)
            /\ SubSeq(cmd, chmodAt + 1, chmodAt + Len(opts)) = opts
            /\ cmd[Len(cmd) - 1] = Str(SourceArg(sArgs.source))
            /\ cmd[Len(cmd)] = Str(DestArg(sArgs.destination))

\* C6 witness: a vector built for an owner and a group, with the tool's
\* name, the chown argument, two extra options and a rewritten source.
C6_VectorWithChown ==
    /\ sOut.done
    /\ sOut.exc = NoExc
    /\ BothNames
    /\ sArgs.rsync # ""
    /\ Len(sArgs.options.items) = 2
    /\ IS_WINDOWS
    /\ Len(sOut.cmd) = 11

\* a path of the form <letter>:\rest or <letter>:/rest
DriveForm(path) ==
    /\ Len(path) >= 3
    /\ path[1] \in Letters
    /\ path[2] = ":"
    /\ path[3] \in {"\\", "/"}

\* C7: on Windows a path <letter>:\rest or <letter>:/rest becomes
\* /cygdrive/<lower-cased letter>/rest with every backslash of rest a
\* forward slash; on the other platforms the path is returned unchanged.
C7_DrivePathsRewritten ==
    fixDone =>
        /\ ~IS_WINDOWS => fixResult = fixPath
        /\ (IS_WINDOWS /\ DriveForm(fixPath)) =>
              fixResult = Cygdrive \o <<Lower(fixPath[1]), "/">>
                          \o ReplaceBackslashes(SubSeq(fixPath, 4, Len(fixPath)))

\* C7, supporting: the rewriting is as claimed for every path that holds
\* no newline.
C7_HoldsWithoutNewline ==
    (fixDone /\ NoNewline(fixPath)) => C7_DrivePathsRewritten

\* C8: no handle on os.devnull is open when a record starts, when
\* _process_records returns, or when an exception has ended the run.
C8_NoOpenHandleAtBoundary ==
    pc \in {"record", "done", "raised"} => OpenCount = 0

\* C8, supporting: the handles are closed at every record boundary of a
\* run in which nothing raises.
C8_HoldsWhenNothingRaises ==
    pc \in {"record", "done"} => OpenCount = 0

IsAggregate(m) == m.what \in {"all done", "some failed"}

AggregateCount == Cardinality({k \in 1..Len(log) : IsAggregate(log[k])})

\* C9 as stated: the run ends with exactly one aggregate message, of level
\* info when the result is true and of level warning when it is false.
C9_AggregateWarning ==
    /\ pc # "done" => AggregateCount = 0
    /\ pc = "done" =>
          /\ AggregateCount = 1
          /\ IsAggregate(log[Len(log)])
          /\ log[Len(log)].level = (IF result THEN "info" ELSE "warning")
          /\ result = success

\* C9 as the code has it: the aggregate message of a failed run has level
\* error.
C9_AggregateError ==
    /\ pc # "done" => AggregateCount = 0
    /\ pc = "done" =>
          /\ AggregateCount = 1
          /\ IsAggregate(log[Len(log)])
          /\ log[Len(log)].level = (IF result THEN "info" ELSE "error")
          /\ result = success

\* C9 witness: a run that went through a record and returned false.
C9_FailedRunReported ==
    /\ pc = "done"
    /\ ~result
    /\ Len(calls) >= 1

HasWarning(msgs, what) ==
    \E k \in 1..Len(msgs) : msgs[k] = Msg("warning", what)

\* C10: _create returns false exactly when the parent was absent and
\* os.mkdir failed; with the parent present it creates nothing; after a
\* successful mkdir it returns true whatever chmod and chown do, each
\* failure is logged as a warning, and chown is attempted after a failed
\* chmod wherever ownership is supported.
C10_CreateResult ==
    \A k \in 1..Len(creates) :
        LET c == creates[k]
        IN  /\ ~c.ret <=> (~c.os.exists /\ ~c.os.mkdirOk)
            /\ c.os.exists => (~c.mkdirTried /\ ~c.chmodTried /\ ~c.chownTried)
            /\ (~c.os.exists /\ c.os.mkdirOk) =>
                  /\ c.chmodTried
                  /\ c.chownTried <=> ~IS_WINDOWS
                  /\ HasWarning(c.log, "chmod failed") <=> ~c.os.chmodOk
                  /\ HasWarning(c.log, "chown failed")
                        <=> (~IS_WINDOWS /\ ~c.os.chownOk)

\* C10 witness: a directory was created, chmod failed on it, chown was
\* still attempted and failed too, and _create returned true.
C10_CreatedDespiteChmodChown ==
    \E k \in 1..Len(creates) :
        /\ creates[k].ret
        /\ creates[k].mkdirTried
        /\ ~creates[k].os.chmodOk
        /\ creates[k].chownTried
        /\ ~creates[k].os.chownOk

====
